---------------------------- MODULE Spec2Model ----------------------------
(***************************************************************************)
(* The whiteboard's Canvas component (src/components/Canvas.tsx, the       *)
(* redux-based version at lines 184-596): the pointer-driven interaction   *)
(* state machine, the keyboard shortcuts, the local-storage effects, and   *)
(* the canvas slice (scene store + undo/redo history) they dispatch to.    *)
(*                                                                         *)
(* The slice (../redux/canvasSlice) and the minimum-size constants         *)
(* (shapeUtils, textFieldUtils) are imported by Canvas.tsx but are not     *)
(* among the source files; they are modelled from spec.md sections 4.1-4.3 *)
(* and are marked so where they are defined.                               *)
(***************************************************************************)
EXTENDS Integers, Sequences, FiniteSets, TLC

VARIABLES
    phase,            \* "mounting" | "ready" | "crashed": the component's life
    canvasObjects,    \* state.canvas.canvasObjects: the scene, in paint order
    selectedObjectId, \* state.canvas.selectedObjectId ("" = none)
    history,          \* History Manager: the snapshots
    cursor,           \* History Manager: index of the current snapshot (1-based)
    selectedTool,     \* useState selectedTool
    strokeColor,      \* useState strokeColor
    strokeWidth,      \* useState strokeWidth
    isInProgress,     \* useState isInProgress
    newObject,        \* useState newObject: the draft, or Null
    pendingObject,    \* the setNewObject of a pointer-move that React has not rendered yet
    open,             \* useState open: the clear-canvas confirmation dialog
    localStorage,     \* localStorage item "canvasState"
    uuidCount,        \* number of ids uuid() has produced
    warned,           \* the console.warn message of the last handler run ("" = none)
    commits,          \* history: number of commits recorded since the store was created
    trail,            \* history: pointer positions of the current gesture (down, moves)
    limits            \* the bounds of the run: [uuid, commits, moves], never changed

vars == <<phase, canvasObjects, selectedObjectId, history, cursor, selectedTool,
          strokeColor, strokeWidth, isInProgress, newObject, pendingObject, open,
          localStorage, uuidCount, warned, commits, trail, limits>>

-----------------------------------------------------------------------------
(* Bounds of the model *)

\* Spec (several gestures with the pen and the rectangle tool, the pointer
\* at the origin): uuid() is called at most MaxUuid times, at most
\* MaxCommits commits are recorded in the history, at most MaxMoves
\* pointer-moves are delivered in one gesture
MaxUuid == 2
MaxCommits == 3
MaxMoves == 1

\* SpecGesture (one gesture, the pointer anywhere)
GestureMaxUuid == 1
GestureMaxCommits == 2
GestureMaxMoves == 2

\* SpecAnyTool (a tool value outside ToolType)
AnyToolMaxUuid == 1
AnyToolMaxCommits == 2
AnyToolMaxMoves == 1

\* pointer coordinates: a small and a large offset from the origin
Near == 2
Far == 7

Origin == {<<0, 0>>}
PointerPositions == {<<0, 0>>, <<Near, 0>>, <<Far, Far>>}

-----------------------------------------------------------------------------
(* Constants of the program *)

\* shapes/shapeUtils (not among the sources): spec.md 4.1 "shapes: e.g. 5x5 minimum"
SHAPE_MIN_WIDTH == 5
SHAPE_MIN_HEIGHT == 5
\* textFields/textFieldUtils (not among the sources): spec.md 4.1 "text: a slightly
\* larger minimum"
TEXT_MIN_WIDTH == 6
TEXT_MIN_HEIGHT == 6

\* useState defaults
DefaultStrokeColor == "#2986cc"
DefaultStrokeWidth == 5
\* values the toolbar's colour picker and width slider can deliver
StrokeColors == {DefaultStrokeColor}
StrokeWidths == {DefaultStrokeWidth}

\* ToolType
ToolType == {"eraser", "pen", "addText", "addOval", "addRectangle"}
\* tool values outside ToolType (setTool is handed one by an untyped caller)
UnknownTools == {"addStar", "select"}

\* the sentinel id
NoSelection == ""
\* useState<CanvasObjectType | null>(null)
Null == [type |-> "null", id |-> NoSelection]
\* no state update of newObject is waiting for a render
NoUpdate == [type |-> "none", id |-> NoSelection]

\* uuid changed: every call returns the same id
uuidRepeats(n) == "u" \o ToString(1)

\* uuid(): the n-th id generated; ids of a persisted snapshot are "s..."
uuid(n) == "u" \o ToString(n)

Abs(n) == IF n < 0 THEN -n ELSE n

-----------------------------------------------------------------------------
(* ../redux/canvasSlice (not among the sources), from spec.md 4.2 and 4.3. *)
(* A slice state is a record s of the fields of state.canvas, with the     *)
(* number of commits made so far.                                          *)

Slice == [canvasObjects |-> canvasObjects, selectedObjectId |-> selectedObjectId,
          history |-> history, cursor |-> cursor, commits |-> commits]

\* the slice's initial state: the empty scene is entry 0 of the history
InitialSlice == [canvasObjects |-> <<>>, selectedObjectId |-> NoSelection,
                 history |-> <<(<<>>)>>, cursor |-> 1, commits |-> 0]

Ids(objects) == {objects[i].id : i \in 1..Len(objects)}

RemoveId(objects, id) == SelectSeq(objects, LAMBDA o : o.id # id)

\* {...object, ...updates}
Merge(object, updates) ==
    [f \in (DOMAIN object) \cup (DOMAIN updates) |->
        IF f \in DOMAIN updates THEN updates[f] ELSE object[f]]

canUndo(s) == s.cursor > 1
canRedo(s) == s.cursor < Len(s.history)

\* commit(): drop the entries after the cursor, append a snapshot of the
\* scene, move the cursor to it
commit(s) ==
    [s EXCEPT !.history = Append(SubSeq(s.history, 1, s.cursor), s.canvasObjects),
              !.cursor = s.cursor + 1,
              !.commits = s.commits + 1]

\* add(object): append; DuplicateIdError (no change) if the id is present
addCanvasObject(s, object) ==
    IF object.id \in Ids(s.canvasObjects) THEN s
    ELSE commit([s EXCEPT !.canvasObjects = Append(s.canvasObjects, object)])

\* update(id, partialFields): merge; NotFoundError (no change) if absent
updateCanvasObject(s, id, updates) ==
    IF id \notin Ids(s.canvasObjects) THEN s
    ELSE commit([s EXCEPT !.canvasObjects =
                    [i \in 1..Len(s.canvasObjects) |->
                        IF s.canvasObjects[i].id = id
                        THEN Merge(s.canvasObjects[i], updates)
                        ELSE s.canvasObjects[i]]])

\* delete(id): remove the object, clear the selection if it was selected;
\* a no-op if the id is absent
deleteCanvasObject(s, id) ==
    IF id \notin Ids(s.canvasObjects) THEN s
    ELSE commit([s EXCEPT !.canvasObjects = RemoveId(s.canvasObjects, id),
                          !.selectedObjectId =
                              IF s.selectedObjectId = id THEN NoSelection
                              ELSE s.selectedObjectId])

\* select(id): no validation of existence
selectCanvasObject(s, id) == [s EXCEPT !.selectedObjectId = id]

\* reset(): empty the sequence, clear the selection
resetCanvas(s) ==
    commit([s EXCEPT !.canvasObjects = <<>>, !.selectedObjectId = NoSelection])

\* replaceAll(objects) from outside the History Manager: selection kept
setCanvasObjects(s, objects) == commit([s EXCEPT !.canvasObjects = objects])

\* undo()/redo(): move the cursor and restore that snapshot, no new commit
undo(s) ==
    IF ~canUndo(s) THEN s
    ELSE [s EXCEPT !.cursor = s.cursor - 1,
                   !.canvasObjects = s.history[s.cursor - 1]]

redo(s) ==
    IF ~canRedo(s) THEN s
    ELSE [s EXCEPT !.cursor = s.cursor + 1,
                   !.canvasObjects = s.history[s.cursor + 1]]

-----------------------------------------------------------------------------
(* Persistence: the text of the local-storage item, and JSON *)

\* localStorage.getItem returns null when the item was never written
NoItem == [kind |-> "null"]
\* the empty string: a text, but falsy
EmptyText == [kind |-> "empty"]
\* a non-empty text that is not JSON
Garbage == [kind |-> "text", json |-> FALSE, value |-> <<>>]

\* if (savedState): null and the empty string are falsy
Truthy(item) == item.kind = "text"

JSONStringify(objects) == [kind |-> "text", json |-> TRUE, value |-> objects]

\* JSON.parse: the value, or a SyntaxError thrown
JSONParse(text) ==
    IF text.json THEN [threw |-> FALSE, value |-> text.value]
    ELSE [threw |-> TRUE, value |-> <<>>]

\* a rectangle saved by an earlier session
SavedShape ==
    [id |-> "s1", shapeName |-> "rectangle", type |-> "shape",
     stroke |-> DefaultStrokeColor, strokeWidth |-> DefaultStrokeWidth,
     x |-> 0, y |-> 0, width |-> Far, height |-> Far]

\* a pen stroke saved by an earlier session
SavedLine ==
    [id |-> "s2", tool |-> "pen", type |-> "ink", points |-> <<0, 0, Near, 0>>,
     stroke |-> DefaultStrokeColor, strokeWidth |-> DefaultStrokeWidth]

\* what the item may hold when the page is opened
StoredItems == {NoItem, EmptyText, JSONStringify(<<SavedLine, SavedShape>>), Garbage}

-----------------------------------------------------------------------------
(* The component: Canvas() *)

\* selectedTool.includes("add"), over the tool values of the model
IncludesAdd(tool) == tool \in {"addText", "addOval", "addRectangle", "addStar"}

\* Math.max(Math.abs(point - anchor) || 5): Math.max of one argument is that
\* argument, and 0 || 5 is 5
DraftExtent(point, anchor) ==
    IF Abs(point - anchor) # 0 THEN Abs(point - anchor) ELSE 5

\* the object addTextField builds
TextField(id, x, y) ==
    [id |-> id, type |-> "text", x |-> x, y |-> y,
     width |-> TEXT_MIN_WIDTH, height |-> TEXT_MIN_HEIGHT,
     fill |-> strokeColor, text |-> "Double click to edit.",
     fontSize |-> 28, fontFamily |-> "Arial"]

\* the object addShape builds
Shape(id, shapeName, x, y) ==
    [id |-> id, shapeName |-> shapeName, type |-> "shape",
     stroke |-> strokeColor, strokeWidth |-> strokeWidth,
     x |-> x, y |-> y, width |-> SHAPE_MIN_WIDTH, height |-> SHAPE_MIN_HEIGHT]

\* the object handleMouseDown builds for the pen and the eraser
Line(id, tool, x, y) ==
    [id |-> id, tool |-> tool, type |-> "ink", points |-> <<x, y>>,
     stroke |-> strokeColor, strokeWidth |-> strokeWidth]

\* MountedItem changed: the save effect does not run again after the load,
\* so the item keeps the first render's empty scene
MountedItemFirstRender(objects) == JSONStringify(InitialSlice.canvasObjects)

\* the text the save effect leaves in the item once the mount has settled:
\* it runs first with the first render's (empty) canvasObjects, then again
\* after the render that follows the load's dispatch
MountedItem(objects) == JSONStringify(objects)

\* the slice after a handler has dispatched; the save effect runs when
\* canvasObjects has changed
Dispatched(s) ==
    /\ canvasObjects' = s.canvasObjects
    /\ selectedObjectId' = s.selectedObjectId
    /\ history' = s.history
    /\ cursor' = s.cursor
    /\ commits' = s.commits
    /\ s.commits <= limits.commits
    /\ localStorage' = IF s.canvasObjects # canvasObjects
                       THEN JSONStringify(s.canvasObjects) ELSE localStorage

SliceUnchanged ==
    UNCHANGED <<canvasObjects, selectedObjectId, history, cursor, commits, localStorage>>

InitWith(bounds) ==
    /\ limits = bounds
    /\ phase = "mounting"
    /\ canvasObjects = InitialSlice.canvasObjects
    /\ selectedObjectId = InitialSlice.selectedObjectId
    /\ history = InitialSlice.history
    /\ cursor = InitialSlice.cursor
    /\ commits = InitialSlice.commits
    /\ selectedTool = "pen"
    /\ strokeColor = DefaultStrokeColor
    /\ strokeWidth = DefaultStrokeWidth
    /\ isInProgress = FALSE
    /\ newObject = Null
    /\ pendingObject = NoUpdate
    /\ open = FALSE
    /\ localStorage \in StoredItems
    /\ uuidCount = 0
    /\ warned = ""
    /\ trail = <<>>

\* the mount: the load effect, then the save effect
Mount ==
    /\ phase = "mounting"
    /\ UNCHANGED <<selectedTool, strokeColor, strokeWidth, isInProgress, newObject,
                   pendingObject, open, uuidCount, warned, trail, limits>>
    /\ IF Truthy(localStorage) /\ JSONParse(localStorage).threw
       THEN \* the SyntaxError leaves the effect uncaught; whether the save
            \* effect of the same commit still runs is React's choice
            /\ phase' = "crashed"
            /\ UNCHANGED <<canvasObjects, selectedObjectId, history, cursor, commits>>
            /\ localStorage' \in {localStorage, JSONStringify(canvasObjects)}
       ELSE LET s == IF Truthy(localStorage)
                     THEN setCanvasObjects(Slice, JSONParse(localStorage).value)
                     ELSE Slice
            IN  /\ phase' = "ready"
                /\ canvasObjects' = s.canvasObjects
                /\ selectedObjectId' = s.selectedObjectId
                /\ history' = s.history
                /\ cursor' = s.cursor
                /\ commits' = s.commits
                /\ localStorage' = MountedItem(s.canvasObjects)

\* Toolbar setTool
SetSelectedTool(tool) ==
    /\ phase = "ready"
    /\ selectedTool' = tool
    /\ warned' = ""
    /\ SliceUnchanged
    /\ UNCHANGED <<limits, phase, pendingObject, strokeColor, strokeWidth, isInProgress, newObject, open,
                   uuidCount, trail>>

updateStyle(property, value) ==
    /\ phase = "ready"
    /\ strokeWidth' = IF property = "strokeWidth" THEN value ELSE strokeWidth
    /\ strokeColor' = IF property = "stroke" THEN value ELSE strokeColor
    /\ IF selectedObjectId # NoSelection
       THEN Dispatched(updateCanvasObject(Slice, selectedObjectId, property :> value))
       ELSE SliceUnchanged
    /\ warned' = ""
    /\ UNCHANGED <<limits, phase, pendingObject, selectedTool, isInProgress, newObject, open, uuidCount, trail>>

\* the layers' setSelectedObjectId, for a click on a shape or a text field
setSelectedObjectId(id) ==
    /\ phase = "ready"
    /\ \E i \in 1..Len(canvasObjects) :
          canvasObjects[i].id = id /\ canvasObjects[i].type # "ink"
    /\ Dispatched(selectCanvasObject(Slice, id))
    /\ warned' = ""
    /\ UNCHANGED <<limits, phase, pendingObject, selectedTool, strokeColor, strokeWidth, isInProgress,
                   newObject, open, uuidCount, trail>>

\* addTextField(x, y): the draft and its selection
addTextField(x, y) ==
    /\ uuidCount < limits.uuid
    /\ newObject' = TextField(uuid(uuidCount + 1), x, y)
    /\ uuidCount' = uuidCount + 1
    /\ Dispatched(selectCanvasObject(Slice, uuid(uuidCount + 1)))
    /\ warned' = ""

\* addShape changed: the shape is added to the scene as soon as it is made
addShapeToScene(shapeName, x, y) ==
    /\ uuidCount < limits.uuid
    /\ uuidCount' = uuidCount + 1
    /\ newObject' = Shape(uuid(uuidCount + 1), shapeName, x, y)
    /\ Dispatched(selectCanvasObject(addCanvasObject(Slice, newObject'),
                                     uuid(uuidCount + 1)))
    /\ warned' = ""

\* addShape(shapeName, x, y): the draft and its selection; a shapeName other
\* than rectangle and oval is warned about after the id was generated
addShape(shapeName, x, y) ==
    /\ uuidCount < limits.uuid
    /\ uuidCount' = uuidCount + 1
    /\ IF shapeName \in {"rectangle", "oval"}
       THEN /\ newObject' = Shape(uuid(uuidCount + 1), shapeName, x, y)
            /\ Dispatched(selectCanvasObject(Slice, uuid(uuidCount + 1)))
            /\ warned' = ""
       ELSE /\ warned' = "Unknown shapeName"
            /\ UNCHANGED newObject
            /\ SliceUnchanged

\* handleMouseDown changed: with an object selected the selection is cleared
\* wherever the pointer lands
handleMouseDownDeselects(pos, clickedOnEmpty) ==
    /\ phase = "ready"
    /\ UNCHANGED <<limits, phase, selectedTool, strokeColor, strokeWidth, open>>
    /\ IF selectedObjectId = NoSelection
       THEN /\ isInProgress' = TRUE
            /\ IF IncludesAdd(selectedTool)
               THEN CASE selectedTool = "addText" ->
                            addTextField(pos[1], pos[2]) /\ trail' = <<pos>> /\ pendingObject' = NoUpdate
                      [] selectedTool = "addRectangle" ->
                            addShape("rectangle", pos[1], pos[2]) /\ trail' = <<pos>> /\ pendingObject' = NoUpdate
                      [] selectedTool = "addOval" ->
                            addShape("oval", pos[1], pos[2]) /\ trail' = <<pos>> /\ pendingObject' = NoUpdate
                      [] OTHER ->
                            /\ warned' = "Unknown tool"
                            /\ SliceUnchanged
                            /\ UNCHANGED <<newObject, pendingObject, uuidCount, trail>>
               ELSE /\ uuidCount < limits.uuid
                    /\ newObject' = Line(uuid(uuidCount + 1), selectedTool, pos[1], pos[2])
                    /\ uuidCount' = uuidCount + 1
                    /\ trail' = <<pos>> /\ pendingObject' = NoUpdate
                    /\ warned' = ""
                    /\ SliceUnchanged
       ELSE /\ Dispatched(selectCanvasObject(Slice, NoSelection))
            /\ warned' = ""
            /\ UNCHANGED <<isInProgress, newObject, pendingObject, uuidCount, trail>>

\* onMouseDown and onTouchStart of the Stage
handleMouseDown(pos, clickedOnEmpty) ==
    /\ phase = "ready"
    /\ UNCHANGED <<limits, phase, selectedTool, strokeColor, strokeWidth, open>>
    /\ IF selectedObjectId = NoSelection
       THEN /\ isInProgress' = TRUE
            /\ IF IncludesAdd(selectedTool)
               THEN CASE selectedTool = "addText" ->
                            addTextField(pos[1], pos[2]) /\ trail' = <<pos>> /\ pendingObject' = NoUpdate
                      [] selectedTool = "addRectangle" ->
                            addShape("rectangle", pos[1], pos[2]) /\ trail' = <<pos>> /\ pendingObject' = NoUpdate
                      [] selectedTool = "addOval" ->
                            addShape("oval", pos[1], pos[2]) /\ trail' = <<pos>> /\ pendingObject' = NoUpdate
                      [] OTHER ->
                            /\ warned' = "Unknown tool"
                            /\ SliceUnchanged
                            /\ UNCHANGED <<newObject, pendingObject, uuidCount, trail>>
               ELSE /\ uuidCount < limits.uuid
                    /\ newObject' = Line(uuid(uuidCount + 1), selectedTool, pos[1], pos[2])
                    /\ uuidCount' = uuidCount + 1
                    /\ trail' = <<pos>> /\ pendingObject' = NoUpdate
                    /\ warned' = ""
                    /\ SliceUnchanged
       ELSE /\ IF clickedOnEmpty
               THEN Dispatched(selectCanvasObject(Slice, NoSelection))
               ELSE SliceUnchanged
            /\ warned' = ""
            /\ UNCHANGED <<isInProgress, newObject, pendingObject, uuidCount, trail>>

\* handleMouseMove changed: the anchor follows a pointer that is left of or
\* above it
handleMouseMoveNormalizes(pos) ==
    /\ phase = "ready"
    /\ SliceUnchanged
    /\ UNCHANGED <<limits, phase, selectedTool, strokeColor, strokeWidth, isInProgress, newObject,
                   open, uuidCount>>
    /\ IF isInProgress /\ newObject # Null
       THEN /\ Len(trail) <= limits.moves
            /\ trail' = Append(trail, pos)
            /\ IF newObject.type # "ink"
               THEN IF IncludesAdd(selectedTool)
                    THEN /\ pendingObject' =
                              [newObject EXCEPT
                                  !.x = IF pos[1] < newObject.x THEN pos[1] ELSE newObject.x,
                                  !.y = IF pos[2] < newObject.y THEN pos[2] ELSE newObject.y,
                                  !.width = DraftExtent(pos[1], newObject.x),
                                  !.height = DraftExtent(pos[2], newObject.y)]
                         /\ warned' = ""
                    ELSE /\ warned' = "Unknown tool"
                         /\ UNCHANGED pendingObject
               ELSE /\ pendingObject' =
                         [newObject EXCEPT !.points = newObject.points \o <<pos[1], pos[2]>>]
                    /\ warned' = ""
       ELSE /\ warned' = ""
            /\ UNCHANGED <<pendingObject, trail>>

\* onMousemove of the Stage. The handler is the closure of the last render:
\* it reads that render's isInProgress and newObject, and its setNewObject
\* is queued until React renders (Render); a pointer-move or a pointer-up
\* that runs before the render sees the state without it
handleMouseMove(pos) ==
    /\ phase = "ready"
    /\ SliceUnchanged
    /\ UNCHANGED <<limits, phase, selectedTool, strokeColor, strokeWidth, isInProgress, newObject,
                   open, uuidCount>>
    /\ IF isInProgress /\ newObject # Null
       THEN /\ Len(trail) <= limits.moves
            /\ trail' = Append(trail, pos)
            /\ IF newObject.type # "ink"
               THEN IF IncludesAdd(selectedTool)
                    THEN /\ pendingObject' =
                              [newObject EXCEPT
                                  !.width = DraftExtent(pos[1], newObject.x),
                                  !.height = DraftExtent(pos[2], newObject.y)]
                         /\ warned' = ""
                    ELSE /\ warned' = "Unknown tool"
                         /\ UNCHANGED pendingObject
               ELSE /\ pendingObject' =
                         [newObject EXCEPT !.points = newObject.points \o <<pos[1], pos[2]>>]
                    /\ warned' = ""
       ELSE /\ warned' = ""
            /\ UNCHANGED <<pendingObject, trail>>

\* handleMouseUp changed: the draft is appended to the scene in place,
\* as the component did before it had a store, and no commit is dispatched
handleMouseUpInPlace ==
    /\ phase = "ready"
    /\ UNCHANGED <<limits, phase, selectedTool, strokeColor, strokeWidth, open, uuidCount>>
    /\ warned' = ""
    /\ IF isInProgress
       THEN /\ IF newObject # Null
               THEN /\ canvasObjects' = Append(canvasObjects, newObject)
                    /\ localStorage' = JSONStringify(canvasObjects')
                    /\ UNCHANGED <<selectedObjectId, history, cursor, commits>>
               ELSE SliceUnchanged
            /\ newObject' = Null
            /\ isInProgress' = FALSE
            /\ trail' = <<>>
            /\ pendingObject' = NoUpdate
       ELSE /\ SliceUnchanged
            /\ UNCHANGED <<newObject, isInProgress, pendingObject, trail>>

\* handleMouseUp changed: the in-progress flag is left as it is
handleMouseUpKeepsFlag ==
    /\ phase = "ready"
    /\ UNCHANGED <<limits, phase, selectedTool, strokeColor, strokeWidth, open, uuidCount>>
    /\ warned' = ""
    /\ IF isInProgress
       THEN /\ IF newObject # Null
               THEN Dispatched(addCanvasObject(Slice, newObject))
               ELSE SliceUnchanged
            /\ newObject' = Null
            /\ UNCHANGED isInProgress
            /\ trail' = <<>>
            /\ pendingObject' = NoUpdate
       ELSE /\ SliceUnchanged
            /\ UNCHANGED <<newObject, isInProgress, pendingObject, trail>>

\* onMouseup of the Stage
handleMouseUp ==
    /\ phase = "ready"
    /\ UNCHANGED <<limits, phase, selectedTool, strokeColor, strokeWidth, open, uuidCount>>
    /\ warned' = ""
    /\ IF isInProgress
       THEN /\ IF newObject # Null
               THEN Dispatched(addCanvasObject(Slice, newObject))
               ELSE SliceUnchanged
            /\ newObject' = Null
            /\ isInProgress' = FALSE
            /\ trail' = <<>>
            /\ pendingObject' = NoUpdate
       ELSE /\ SliceUnchanged
            /\ UNCHANGED <<newObject, isInProgress, pendingObject, trail>>

\* handleDelete changed: the confirmation is opened without looking at the
\* scene's length
handleDeleteNoLengthCheck ==
    /\ phase = "ready"
    /\ warned' = ""
    /\ UNCHANGED <<limits, phase, pendingObject, selectedTool, strokeColor, strokeWidth, isInProgress,
                   newObject, uuidCount, trail>>
    /\ IF selectedObjectId = NoSelection
       THEN /\ open' = TRUE
            /\ SliceUnchanged
       ELSE /\ Dispatched(deleteCanvasObject(Slice, selectedObjectId))
            /\ UNCHANGED open

\* handleDelete changed: with an object selected the whole canvas is reset
handleDeleteResets ==
    /\ phase = "ready"
    /\ warned' = ""
    /\ UNCHANGED <<limits, phase, pendingObject, selectedTool, strokeColor, strokeWidth, isInProgress,
                   newObject, uuidCount, trail>>
    /\ IF selectedObjectId = NoSelection
       THEN /\ open' = IF Len(canvasObjects) > 0 THEN TRUE ELSE open
            /\ SliceUnchanged
       ELSE /\ Dispatched(resetCanvas(Slice))
            /\ UNCHANGED open

\* handleDelete: the Delete key and the toolbar's onDelete
handleDelete ==
    /\ phase = "ready"
    /\ warned' = ""
    /\ UNCHANGED <<limits, phase, pendingObject, selectedTool, strokeColor, strokeWidth, isInProgress,
                   newObject, uuidCount, trail>>
    /\ IF selectedObjectId = NoSelection
       THEN /\ open' = IF Len(canvasObjects) > 0 THEN TRUE ELSE open
            /\ SliceUnchanged
       ELSE /\ Dispatched(deleteCanvasObject(Slice, selectedObjectId))
            /\ UNCHANGED open

\* handleKeyDown/undo changed: an undo also cancels the gesture in progress
handleKeyDownUndoCancels ==
    /\ phase = "ready"
    /\ Dispatched(undo(Slice))
    /\ warned' = ""
    /\ newObject' = Null
    /\ isInProgress' = FALSE
    /\ trail' = <<>>
    /\ pendingObject' = NoUpdate
    /\ UNCHANGED <<limits, phase, selectedTool, strokeColor, strokeWidth, open, uuidCount>>

\* handleKeyDown, Ctrl+Z / Cmd+Z
handleKeyDownUndo ==
    /\ phase = "ready"
    /\ Dispatched(undo(Slice))
    /\ warned' = ""
    /\ UNCHANGED <<limits, phase, pendingObject, selectedTool, strokeColor, strokeWidth, isInProgress,
                   newObject, open, uuidCount, trail>>

\* handleKeyDown, Ctrl+Y / Cmd+Shift+Z
handleKeyDownRedo ==
    /\ phase = "ready"
    /\ Dispatched(redo(Slice))
    /\ warned' = ""
    /\ UNCHANGED <<limits, phase, pendingObject, selectedTool, strokeColor, strokeWidth, isInProgress,
                   newObject, open, uuidCount, trail>>

\* resetCanvasState changed: the scene is emptied in place, no commit
resetCanvasStateInPlace ==
    /\ phase = "ready"
    /\ open
    /\ canvasObjects' = <<>>
    /\ selectedObjectId' = NoSelection
    /\ localStorage' = JSONStringify(<<>>)
    /\ warned' = ""
    /\ UNCHANGED <<limits, phase, pendingObject, selectedTool, strokeColor, strokeWidth, isInProgress,
                   newObject, open, uuidCount, trail, history, cursor, commits>>

\* resetCanvasState: the confirmation dialog's onConfirm
resetCanvasState ==
    /\ phase = "ready"
    /\ open
    /\ Dispatched(resetCanvas(Slice))
    /\ warned' = ""
    /\ UNCHANGED <<limits, phase, pendingObject, selectedTool, strokeColor, strokeWidth, isInProgress,
                   newObject, open, uuidCount, trail>>

\* the confirmation dialog's onClose
onClose ==
    /\ phase = "ready"
    /\ open
    /\ open' = FALSE
    /\ warned' = ""
    /\ SliceUnchanged
    /\ UNCHANGED <<limits, phase, pendingObject, selectedTool, strokeColor, strokeWidth, isInProgress,
                   newObject, uuidCount, trail>>

\* React renders the update a pointer-move has queued (pointer-down,
\* pointer-up and key events render before the next event is handled)
Render ==
    /\ phase = "ready"
    /\ pendingObject # NoUpdate
    /\ newObject' = pendingObject
    /\ pendingObject' = NoUpdate
    /\ SliceUnchanged
    /\ UNCHANGED <<limits, phase, selectedTool, strokeColor, strokeWidth, isInProgress, open,
                   uuidCount, warned, trail>>

\* the layers' onChange: a drag or a transform of an object of the scene
updateSelectedObject(newAttrs, id) ==
    /\ phase = "ready"
    /\ Dispatched(updateCanvasObject(Slice, id, newAttrs))
    /\ warned' = ""
    /\ UNCHANGED <<limits, phase, pendingObject, selectedTool, strokeColor, strokeWidth,
                   isInProgress, newObject, open, uuidCount, trail>>

\* the shapes layer's setColor
setStrokeColor(value) ==
    /\ phase = "ready"
    /\ strokeColor' = value
    /\ warned' = ""
    /\ SliceUnchanged
    /\ UNCHANGED <<limits, phase, pendingObject, selectedTool, strokeWidth, isInProgress,
                   newObject, open, uuidCount, trail>>

\* the shapes layer's setWidth
setStrokeWidth(value) ==
    /\ phase = "ready"
    /\ strokeWidth' = value
    /\ warned' = ""
    /\ SliceUnchanged
    /\ UNCHANGED <<limits, phase, pendingObject, selectedTool, strokeColor, isInProgress,
                   newObject, open, uuidCount, trail>>

\* the attributes a drag or a transform delivers
ObjectUpdates == {[x |-> Near, y |-> Far, width |-> 1, height |-> 0, rotation |-> 45]}

\* the objects the shapes layer and the text fields layer paint from the scene
LayerIds(objects) == {objects[i].id : i \in {j \in 1..Len(objects) : objects[j].type # "ink"}}

Events(tools, positions) ==
    \/ Mount
    \/ \E tool \in tools : SetSelectedTool(tool)
    \/ \E value \in StrokeWidths : updateStyle("strokeWidth", value)
    \/ \E value \in StrokeColors : updateStyle("stroke", value)
    \/ \E id \in Ids(canvasObjects) : setSelectedObjectId(id)
    \/ \E newAttrs \in ObjectUpdates, id \in LayerIds(canvasObjects) :
          updateSelectedObject(newAttrs, id)
    \/ \E value \in StrokeColors : setStrokeColor(value)
    \/ \E value \in StrokeWidths : setStrokeWidth(value)
    \/ \E pos \in positions, clickedOnEmpty \in BOOLEAN :
          handleMouseDown(pos, clickedOnEmpty)
    \/ \E pos \in positions : handleMouseMove(pos)
    \/ Render
    \/ handleMouseUp
    \/ handleDelete
    \/ handleKeyDownUndo
    \/ handleKeyDownRedo
    \/ resetCanvasState
    \/ onClose

\* several gestures, the pointer at the origin: the pen (the tool the
\* component starts with) until the toolbar sets the rectangle tool
SceneTools == {"addRectangle"}

Init == InitWith([uuid |-> MaxUuid, commits |-> MaxCommits, moves |-> MaxMoves])

Next == Events(SceneTools, Origin)

Spec == Init /\ [][Next]_vars

\* one gesture with every tool of ToolType over every pointer position
InitGesture ==
    InitWith([uuid |-> GestureMaxUuid, commits |-> GestureMaxCommits,
              moves |-> GestureMaxMoves])

NextGesture == Events(ToolType, PointerPositions)

SpecGesture == InitGesture /\ [][NextGesture]_vars

\* setTool handed any value
InitAnyTool ==
    InitWith([uuid |-> AnyToolMaxUuid, commits |-> AnyToolMaxCommits,
              moves |-> AnyToolMaxMoves])

NextAnyTool == Events(ToolType \cup UnknownTools, Origin)

SpecAnyTool == InitAnyTool /\ [][NextAnyTool]_vars

-----------------------------------------------------------------------------
(* Properties *)

Last(seq) == seq[Len(seq)]

\* the objects that have the width and the height a gesture gave them: the
\* draft, rendered or queued, and the objects of the scene that no drag or
\* transform has changed since
SizedObjects ==
    {o \in {newObject, pendingObject} \cup {canvasObjects[i] : i \in 1..Len(canvasObjects)} :
        o.type \in {"shape", "text"} /\ "rotation" \notin DOMAIN o}

MinWidth(o) == IF o.type = "text" THEN TEXT_MIN_WIDTH ELSE SHAPE_MIN_WIDTH
MinHeight(o) == IF o.type = "text" THEN TEXT_MIN_HEIGHT ELSE SHAPE_MIN_HEIGHT

\* C1: minimum-size clamp. The width and the height of every draft and of
\* every committed shape or text are at least the type's minimum (and so
\* never negative), whatever pointer-moves were delivered.
C1_MinimumSizeClamp ==
    \A o \in SizedObjects : o.width >= MinWidth(o) /\ o.height >= MinHeight(o)

\* the gesture so far is a pointer-down on a create tool with no other
\* position than the pointer-down's, and its draft is still the selection
StillCreateGesture ==
    /\ phase = "ready"
    /\ isInProgress
    /\ newObject.type \in {"shape", "text"}
    /\ selectedObjectId = newObject.id
    /\ trail # <<>>
    /\ \A i \in 1..Len(trail) : trail[i] = trail[1]

\* C2: a pointer-down with a create tool followed by pointer-up with no
\* movement (any number of pointer-moves to the same coordinate) commits
\* exactly one object, anchored at the pointer-down, of the type's minimum
\* width and height, and leaves it selected.
C2_NoMovementCommitsMinimum ==
    [][(StillCreateGesture /\ ~isInProgress')
        => /\ Len(canvasObjects') = Len(canvasObjects) + 1
           /\ SubSeq(canvasObjects', 1, Len(canvasObjects)) = canvasObjects
           /\ Last(canvasObjects').id = newObject.id
           /\ Last(canvasObjects').x = trail[1][1]
           /\ Last(canvasObjects').y = trail[1][2]
           /\ Last(canvasObjects').width = MinWidth(newObject)
           /\ Last(canvasObjects').height = MinHeight(newObject)
           /\ selectedObjectId' = newObject.id]_vars

RECURSIVE UndoTimes(_, _)
UndoTimes(s, n) == IF n = 0 THEN s ELSE UndoTimes(undo(s), n - 1)

RECURSIVE RedoTimes(_, _)
RedoTimes(s, n) == IF n = 0 THEN s ELSE RedoTimes(redo(s), n - 1)

\* C3: undo/redo inverse law. The scene is always the snapshot under the
\* cursor; after the n commits made so far, n undos lead to the initial
\* (empty) scene, k undos lead to the scene k commits back on the current
\* branch, and as many redos after them restore the branch's last scene (the
\* current scene when no undo is pending), same objects in the same order.
C3_UndoRedoInverse ==
    phase = "ready" =>
        /\ canvasObjects = history[cursor]
        /\ UndoTimes(Slice, commits).canvasObjects = InitialSlice.canvasObjects
        /\ UndoTimes(Slice, commits).cursor = 1
        /\ RedoTimes(UndoTimes(Slice, commits), commits).canvasObjects
              = Last(history)
        /\ cursor = Len(history) =>
              \A k \in 0..(cursor - 1) :
                 /\ UndoTimes(Slice, k).canvasObjects = history[cursor - k]
                 /\ RedoTimes(UndoTimes(Slice, k), k).canvasObjects = canvasObjects

\* C3 witness: two gestures were committed and both undone
C3_Witness ==
    /\ phase = "ready"
    /\ Len(history) = 3
    /\ cursor = 1
    /\ Len(history[2]) = 1
    /\ Len(history[3]) = 2
    /\ canvasObjects = <<>>

\* a step that commits: a recorded commit, or a pointer-up with a draft
CommitStep ==
    \/ commits' > commits
    \/ isInProgress /\ newObject # Null /\ ~isInProgress'

\* C4: redo-branch discard. A commit made while a redo is available (after
\* an undo) leaves canRedo false and redo a no-op on the scene and the
\* cursor; the history ends at the new entry.
C4_RedoBranchDiscard ==
    [][(phase = "ready" /\ canRedo(Slice) /\ CommitStep)
        => /\ ~canRedo(Slice')
           /\ redo(Slice') = Slice'
           /\ Len(history') = cursor + 1
           /\ SubSeq(history', 1, cursor) = SubSeq(history, 1, cursor)
           /\ Last(history') = canvasObjects']_vars

\* C4 witness: more commits were made than the history holds after its
\* initial entry, so a redo branch was discarded, and no redo is available
C4_Witness ==
    /\ phase = "ready"
    /\ commits >= Len(history)
    /\ cursor = Len(history)
    /\ Len(canvasObjects) > 0

\* C5: a draft is abandoned only by pointer-up. Whenever the draft is
\* replaced or cleared, it has just been appended to the scene.
C5_DraftLeavesOnlyByCommit ==
    [][(newObject # Null /\ newObject'.id # newObject.id)
        => /\ Len(canvasObjects') > 0
           /\ Last(canvasObjects') = newObject
           /\ newObject.id \notin Ids(canvasObjects)]_vars

\* C6: startup never crashes, whatever the persisted item holds.
C6_StartupNeverCrashes == phase # "crashed"

\* Idle, nothing selected
IdleUnselected ==
    /\ phase = "ready"
    /\ ~isInProgress
    /\ newObject = Null
    /\ selectedObjectId = NoSelection

\* C7: a pointer-down in Idle with nothing selected and a tool outside
\* ToolType logs a warning and changes nothing else.
C7_UnknownToolIsNoOp ==
    [][(IdleUnselected /\ selectedTool \notin ToolType
          /\ \E pos \in Origin, clickedOnEmpty \in BOOLEAN :
                handleMouseDown(pos, clickedOnEmpty))
        => /\ warned' # ""
           /\ newObject' = Null
           /\ ~isInProgress'
           /\ UNCHANGED <<canvasObjects, selectedObjectId, history, cursor>>]_vars

\* C8: Delete. With an id selected that object is gone from the scene and no
\* confirmation is opened; with nothing selected and a non-empty scene only
\* the confirmation is opened; with nothing selected and an empty scene
\* nothing changes.
C8_DeleteKey ==
    [][handleDelete
        => IF selectedObjectId # NoSelection
           THEN /\ selectedObjectId \notin Ids(canvasObjects')
                /\ \A i \in 1..Len(canvasObjects') :
                      canvasObjects'[i] \in
                         {canvasObjects[j] : j \in 1..Len(canvasObjects)}
                /\ Len(canvasObjects') >= Len(canvasObjects) - 1
                /\ open' = open
           ELSE /\ open' = (open \/ Len(canvasObjects) > 0)
                /\ UNCHANGED <<canvasObjects, selectedObjectId, history, cursor,
                               commits, localStorage, isInProgress, newObject,
                               selectedTool, strokeColor, strokeWidth>>]_vars

\* C8 witness: Delete with nothing selected has opened the confirmation
C8_Witness ==
    /\ phase = "ready"
    /\ open
    /\ Len(canvasObjects) > 0
    /\ selectedObjectId = NoSelection

\* C9: selection clears on delete. Deleting the selected object of the scene
\* leaves the selection at the sentinel and removes exactly that object, the
\* others keeping their order.
C9_SelectionClearsOnDelete ==
    [][(handleDelete /\ selectedObjectId \in Ids(canvasObjects))
        => /\ selectedObjectId' = NoSelection
           /\ \E i \in 1..Len(canvasObjects) :
                 /\ canvasObjects[i].id = selectedObjectId
                 /\ canvasObjects' = SubSeq(canvasObjects, 1, i - 1)
                                       \o SubSeq(canvasObjects, i + 1, Len(canvasObjects))]_vars

\* C9 witness: the second of three objects has just been deleted
C9_Witness ==
    /\ phase = "ready"
    /\ cursor = Len(history)
    /\ cursor > 1
    /\ Len(history[cursor - 1]) = 3
    /\ canvasObjects = <<history[cursor - 1][1], history[cursor - 1][3]>>
    /\ selectedObjectId = NoSelection

\* C10: persistence round trip. While the component runs the item holds the
\* current scene; a mount that reads a valid item ends with the scene and
\* the item both equal to what the item held.
C10_PersistenceRoundTrip ==
    /\ [](phase = "ready" => localStorage = JSONStringify(canvasObjects))
    /\ [][(phase = "mounting" /\ phase' = "ready" /\ Truthy(localStorage))
           => /\ JSONStringify(canvasObjects') = localStorage
              /\ localStorage' = localStorage]_vars

\* C10 witness: a saved scene was loaded, an object was committed on top of
\* it, and the item holds all three
C10_Witness ==
    /\ phase = "ready"
    /\ Len(canvasObjects) = 3
    /\ canvasObjects[1] = SavedLine
    /\ localStorage = JSONStringify(canvasObjects)

\* the ids of every object that is in the scene or in a history entry
RecordedIds ==
    Ids(canvasObjects) \cup UNION {Ids(history[i]) : i \in 1..Len(history)}

\* the ids generated so far
GeneratedIds == {uuid(k) : k \in 1..uuidCount}

\* no two objects of the sequence share an id
DistinctIds(objects) ==
    \A i, j \in 1..Len(objects) : objects[i].id = objects[j].id => i = j

\* C11: id uniqueness. No two objects of the scene (or of a history entry)
\* share an id; a draft's id is the last one generated, and it is the id of
\* no object of the scene or of the history; every id recorded was loaded or
\* generated earlier, and an id generated for a new draft differs from all
\* the ids generated before, so from the ids of all objects that ever were
\* in the scene; a pointer-up adds its draft once and leaves no draft that
\* could be added again.
C11_IdUniqueness ==
    /\ [](phase = "ready" =>
            /\ DistinctIds(canvasObjects)
            /\ \A i \in 1..Len(history) : DistinctIds(history[i])
            /\ RecordedIds \subseteq GeneratedIds \cup Ids(<<SavedLine, SavedShape>>)
            /\ newObject # Null =>
                  /\ newObject.id = uuid(uuidCount)
                  /\ newObject.id \notin RecordedIds
            /\ pendingObject # NoUpdate => pendingObject.id = newObject.id)
    /\ [][(newObject' # Null /\ newObject'.id # newObject.id)
           => /\ newObject'.id \notin GeneratedIds \cup RecordedIds
              /\ newObject'.id \notin RecordedIds'
              /\ uuidCount' > uuidCount]_vars
    /\ [][(newObject # Null /\ newObject.id \in Ids(canvasObjects'))
           => /\ newObject' = Null
              /\ Len(canvasObjects') = Len(canvasObjects) + 1]_vars

\* C11 witness: a loaded scene of two objects, a committed draft on top of
\* it, and a second draft in progress
C11_Witness ==
    /\ phase = "ready"
    /\ Len(canvasObjects) = 3
    /\ canvasObjects[3].id = uuid(1)
    /\ isInProgress
    /\ newObject # Null
    /\ newObject.id = uuid(2)

\* C12: drawing or adding begins only when no object is selected. A
\* pointer-down while the selected id is not the sentinel creates no draft
\* and leaves the in-progress flag, the draft, the scene and the history as
\* they were (an Idle machine stays Idle); on empty canvas it sets the
\* selected id to the sentinel, elsewhere it leaves the selection unchanged.
C12_PointerDownWhileSelected ==
    [][\A pos \in PointerPositions, clickedOnEmpty \in BOOLEAN :
          (selectedObjectId # NoSelection /\ handleMouseDown(pos, clickedOnEmpty))
          => /\ UNCHANGED <<newObject, pendingObject, isInProgress, uuidCount, canvasObjects,
                            history, cursor, commits, open>>
             /\ selectedObjectId' =
                   IF clickedOnEmpty THEN NoSelection ELSE selectedObjectId]_vars

\* C12 witness: the only commit made is a rectangle's, which its gesture
\* left selected; a pointer-down on empty canvas has cleared the selection
\* and the machine is Idle
C12_Witness ==
    /\ IdleUnselected
    /\ commits = 1
    /\ Len(canvasObjects) = 1
    /\ canvasObjects[1].id = uuid(1)
    /\ canvasObjects[1].type = "shape"
    /\ uuidCount = 1

\* the coordinates of a sequence of pointer positions, in event order
Flatten(positions) ==
    [i \in 1..(2 * Len(positions)) |-> positions[(i + 1) \div 2][2 - (i % 2)]]

\* C13: ink point growth. Once rendered, the points of a pen or eraser
\* draft are the positions of its pointer-down and of all the pointer-moves
\* since, flattened in event order, none lost; pointer-up commits the draft
\* with those points, a single pair only when no pointer-move was delivered.
C13_InkPointGrowth ==
    /\ []((phase = "ready" /\ newObject.type = "ink" /\ pendingObject = NoUpdate)
            => /\ newObject.points = Flatten(trail)
               /\ Len(newObject.points) = 2 * Len(trail))
    /\ [][(isInProgress /\ newObject.type = "ink" /\ handleMouseUp)
           => /\ Len(canvasObjects') = Len(canvasObjects) + 1
              /\ Last(canvasObjects').points = Flatten(trail)
              /\ Len(Last(canvasObjects').points) = 2 <=> Len(trail) = 1]_vars

\* C14: a pointer-move while a shape or text draft is in progress changes
\* nothing of the draft but its width and height (anchor, id, type,
\* shapeName and style fields stay), on whichever side of the anchor the
\* pointer is, and leaves the scene, the selection, the history, the flag,
\* the tool and the style as they were. The handler queues the draft with
\* the new extent; the render that follows makes it the draft.
C14_MoveChangesOnlyExtent ==
    /\ [][\A pos \in PointerPositions :
             (isInProgress /\ newObject.type \in {"shape", "text"} /\ handleMouseMove(pos))
             => /\ \/ pendingObject' = pendingObject
                   \/ pendingObject' = [newObject EXCEPT !.width = pendingObject'.width,
                                                        !.height = pendingObject'.height]
                /\ UNCHANGED <<newObject, canvasObjects, selectedObjectId, history, cursor,
                               commits, localStorage, isInProgress, selectedTool,
                               strokeColor, strokeWidth, open, uuidCount>>]_vars
    /\ [][(newObject.type \in {"shape", "text"} /\ Render)
           => /\ newObject' = [newObject EXCEPT !.width = newObject'.width,
                                                !.height = newObject'.height]
              /\ newObject'.x = newObject.x
              /\ newObject'.y = newObject.y
              /\ newObject'.id = newObject.id
              /\ UNCHANGED <<canvasObjects, selectedObjectId, history, cursor, commits,
                             localStorage, isInProgress, selectedTool, strokeColor,
                             strokeWidth, open, uuidCount>>]_vars

\* C14 witness: a shape or text draft anchored at the far corner was dragged
\* up and to the left, to the origin, and is still anchored where it began
C14_Witness ==
    /\ phase = "ready"
    /\ isInProgress
    /\ newObject.type \in {"shape", "text"}
    /\ pendingObject = NoUpdate
    /\ trail = <<(<<Far, Far>>), (<<0, 0>>)>>
    /\ newObject.x = Far
    /\ newObject.y = Far
    /\ newObject.width = Far
    /\ newObject.height = Far

\* C15: the draft is held outside the committed store. Pointer-down and
\* pointer-move leave the scene, the history entries, the cursor and the
\* persisted item as they were; while a draft exists its id is the id of no
\* object of the scene; the pointer-up that ends the gesture appends the
\* draft, and nothing else, to the scene and records exactly one history
\* entry, the new scene, after the entry the cursor was on; no other commit
\* of the running component makes the scene longer.
C15_DraftOutsideStore ==
    /\ [][(~UNCHANGED <<canvasObjects, history, cursor, commits, localStorage>>)
           => \A pos \in PointerPositions, clickedOnEmpty \in BOOLEAN :
                 ~(handleMouseDown(pos, clickedOnEmpty) \/ handleMouseMove(pos))]_vars
    /\ []((phase = "ready" /\ newObject # Null)
            => newObject.id \notin Ids(canvasObjects))
    /\ [][(isInProgress /\ newObject # Null /\ handleMouseUp)
           => /\ canvasObjects' = Append(canvasObjects, newObject)
              /\ history' = Append(SubSeq(history, 1, cursor), canvasObjects')
              /\ cursor' = cursor + 1
              /\ commits' = commits + 1]_vars
    /\ [][(phase = "ready" /\ commits' > commits
             /\ Len(canvasObjects') > Len(canvasObjects))
           => /\ isInProgress
              /\ newObject # Null
              /\ ~isInProgress'
              /\ newObject' = Null
              /\ Last(canvasObjects') = newObject]_vars

\* C15 witness: one gesture with a create tool has ended; the scene holds
\* its object, the history its one entry after the empty one, and the object
\* is still the selection
C15_Witness ==
    /\ phase = "ready"
    /\ ~isInProgress
    /\ newObject = Null
    /\ commits = 1
    /\ history = <<(<<>>), canvasObjects>>
    /\ cursor = 2
    /\ Len(canvasObjects) = 1
    /\ canvasObjects[1].id = uuid(1)
    /\ selectedObjectId = uuid(1)

\* Drafting: the flag is set and a draft exists
Drafting ==
    /\ phase = "ready"
    /\ isInProgress
    /\ newObject # Null

\* C16: undo and redo while Drafting. The key events act on the store as
\* they do in Idle (the scene becomes the snapshot before or after the
\* cursor, when there is one) and leave the draft and the in-progress flag
\* as they were; the pointer-up of the draft, whatever snapshot the scene
\* was restored to, appends the draft to the end of that scene as a new
\* commit and leaves the machine Idle.
C16_UndoRedoWhileDrafting ==
    /\ [][(Drafting /\ handleKeyDownUndo)
           => /\ UNCHANGED <<newObject, pendingObject, isInProgress, history,
                             selectedObjectId>>
              /\ cursor' = IF cursor > 1 THEN cursor - 1 ELSE cursor
              /\ canvasObjects' = history[cursor']]_vars
    /\ [][(Drafting /\ handleKeyDownRedo)
           => /\ UNCHANGED <<newObject, pendingObject, isInProgress, history,
                             selectedObjectId>>
              /\ cursor' = IF cursor < Len(history) THEN cursor + 1 ELSE cursor
              /\ canvasObjects' = history[cursor']]_vars
    /\ [][(Drafting /\ handleMouseUp)
           => /\ canvasObjects = history[cursor]
              /\ canvasObjects' = history[cursor] \o <<newObject>>
              /\ history'[cursor'] = canvasObjects'
              /\ cursor' = Len(history')
              /\ ~isInProgress'
              /\ newObject' = Null]_vars

\* C16 witness: the first object was committed and undone, the second
\* draft was committed on the restored empty scene, and the redo branch of
\* the first is gone
C16_Witness ==
    /\ phase = "ready"
    /\ ~isInProgress
    /\ newObject = Null
    /\ uuidCount = 2
    /\ commits = 2
    /\ Len(history) = 2
    /\ cursor = 2
    /\ Len(canvasObjects) = 1
    /\ canvasObjects[1].id = uuid(2)

\* C17: a confirmed clear-all is a committed mutation. The confirm action
\* on a non-empty scene leaves the scene empty and the selection at the
\* sentinel, records one new history entry (the empty scene) after the
\* entry the cursor was on, and one undo from there restores the object
\* sequence that existed before the clear.
C17_ClearAllIsCommitted ==
    [][(resetCanvasState /\ Len(canvasObjects) > 0)
        => /\ canvasObjects' = <<>>
           /\ selectedObjectId' = NoSelection
           /\ commits' = commits + 1
           /\ cursor' = cursor + 1
           /\ history' = Append(SubSeq(history, 1, cursor), <<>>)
           /\ canUndo(Slice')
           /\ undo(Slice').canvasObjects = canvasObjects
           /\ undo(Slice').cursor = cursor
           /\ UNCHANGED <<newObject, isInProgress>>]_vars

\* C17 witness: a scene of at least two objects was cleared in one commit
C17_Witness ==
    /\ phase = "ready"
    /\ canvasObjects = <<>>
    /\ cursor = Len(history)
    /\ cursor > 1
    /\ Len(history[cursor - 1]) >= 2
    /\ selectedObjectId = NoSelection

\* C18: in every state the selected id is the sentinel, the id of the
\* current draft, or the id of an object present in the scene; so from Idle
\* a pointer-down with a pen, eraser or create tool starts a draft whenever
\* no object of the scene is selected.
C18_SelectionIsLive ==
    /\ [](phase = "ready" =>
            selectedObjectId \in {NoSelection, newObject.id} \cup Ids(canvasObjects))
    /\ [][\A pos \in PointerPositions, clickedOnEmpty \in BOOLEAN :
             (/\ ~isInProgress
              /\ newObject = Null
              /\ selectedTool \in ToolType
              /\ selectedObjectId \notin Ids(canvasObjects)
              /\ handleMouseDown(pos, clickedOnEmpty))
             => /\ isInProgress'
                /\ newObject' # Null
                /\ newObject'.id # newObject.id]_vars

\* C19: with the five recognized tools a draft exists exactly when the
\* in-progress flag is set; every pointer-up leaves no draft and the flag
\* clear; a pointer-move while the flag is clear changes nothing of the
\* component's or the store's state.
C19_DraftIffInProgress ==
    /\ []((phase = "ready" /\ selectedTool \in ToolType)
            => /\ isInProgress <=> newObject # Null
               /\ pendingObject # NoUpdate => isInProgress)
    /\ [][handleMouseUp
           => (~isInProgress' /\ newObject' = Null /\ pendingObject' = NoUpdate)]_vars
    /\ [][\A pos \in PointerPositions :
             (~isInProgress /\ handleMouseMove(pos))
             => UNCHANGED <<phase, canvasObjects, selectedObjectId, history, cursor,
                            commits, selectedTool, strokeColor, strokeWidth,
                            isInProgress, newObject, pendingObject, open,
                            localStorage, uuidCount, trail>>]_vars

\* C19 witness: a text gesture has ended with its pointer-up; the text is
\* in the scene, no draft is left and the flag is clear
C19_Witness ==
    /\ phase = "ready"
    /\ ~isInProgress
    /\ newObject = Null
    /\ uuidCount = 1
    /\ Len(canvasObjects) > 0
    /\ Last(canvasObjects).id = uuid(1)
    /\ Last(canvasObjects).type = "text"

=============================================================================
